---- MODULE Spec2Model ----
(***************************************************************************)
(* Model of daily_airline-digest_email_sender.py: the selection ledger     *)
(* (sent_airlines.json), the digest selection and the orchestration done   *)
(* by main().  A run is one execution of main(); runs share only the       *)
(* ledger file.  An airline dictionary is modelled by its 'iata' value,    *)
(* the only field the control flow reads.                                  *)
(***************************************************************************)
EXTENDS Integers, Sequences, FiniteSets, TLC

\* ---------------------------------------------------------------- bounds
MaxRuns == 3
NumLetters == 2
MaxPage == 1
MaxDests == 1

\* Process slots: at most two invocations are alive at a time.
Slots == 1..2
Ids == {"AA", "BB", "XYZ"}
NoIata == ""

VARIABLES file, run, started, deliveries, fault, last_writer

vars == <<file, run, started, deliveries, fault, last_writer>>

\* ------------------------------------------------------------ helpers
Range(s) == {s[i] : i \in 1..Len(s)}

SeqsUpTo(S, n) == UNION {[1..k -> S] : k \in 0..n}

IsPrefix(s, t) == Len(s) <= Len(t) /\ \A i \in 1..Len(s) : s[i] = t[i]

IndexOf(s, x) == IF x \in Range(s) THEN CHOOSE i \in 1..Len(s) : s[i] = x ELSE 0

\* ------------------------------------------------------- the ledger file
MissingFile == [kind |-> "missing", sent |-> {}]
PartialFile == [kind |-> "corrupt", sent |-> {}]
OkFile(S) == [kind |-> "ok", sent |-> S]

\* get_sent_airlines(): the stored set, or the empty set when the file is
\* missing, unparsable, or the read raises.
GetSentAirlinesDropAll(f, readFails) == {}

GetSentAirlines(f, readFails) ==
    IF f.kind = "ok" /\ ~readFails THEN f.sent ELSE {}

\* What a fault-free load() of the file returns.
Persisted(f) == GetSentAirlines(f, FALSE)

\* sent_set.add(iata_code)
AddIdForgets(sent_set, iata_code) == sent_set

AddId(sent_set, iata_code) == sent_set \cup {iata_code}

\* json.dump of the in-memory set into the opened (truncated) file.
Dump(sent_set) == OkFile(sent_set)

\* ------------------------------------------------------- catalog fetch
\* The answer to one per-letter query: a failed request, or a page of items.
Page == {[ok |-> FALSE, items |-> <<>>]}
          \cup [ok : {TRUE}, items : SeqsUpTo(Ids \cup {NoIata}, MaxPage)]

\* The inner loop of fetch_all_airlines: keep the items that carry an iata
\* not seen before, in arrival order.
RECURSIVE AddPage(_, _, _)
AddPage(items, j, acc) ==
    IF j > Len(items) THEN acc
    ELSE AddPage(items, j + 1,
                 IF items[j] # NoIata /\ items[j] \notin Range(acc)
                 THEN Append(acc, items[j]) ELSE acc)

\* ------------------------------------------------------------ selection
RECURSIVE Filter(_, _, _)
Filter(all, sent, i) ==
    IF i > Len(all) THEN <<>>
    ELSE IF all[i] \notin sent THEN <<all[i]>> \o Filter(all, sent, i + 1)
         ELSE Filter(all, sent, i + 1)

AvailableUnfiltered(all_airlines, sent_airlines) == all_airlines

AvailableAirlines(all_airlines, sent_airlines) == Filter(all_airlines, sent_airlines, 1)

\* ------------------------------------------------------ enrichment, render
Destinations == SeqsUpTo(BOOLEAN, MaxDests)

\* get_destinations: a malformed code short-circuits to the empty list.
get_destinations(iata, answer) == IF Len(iata) # 2 THEN <<>> ELSE answer

\* create_email_content: the count of records that carry an iataCode.
RECURSIVE CountValid(_, _)
CountValid(dests, i) ==
    IF i > Len(dests) THEN 0
    ELSE (IF dests[i] THEN 1 ELSE 0) + CountValid(dests, i + 1)

\* --------------------------------------------------------- control flow
AfterConfigSkipsLoad(config) == IF config = "missing" THEN "done" ELSE "fetch"

AfterConfig(config) == IF config = "missing" THEN "done" ELSE "load"

AfterFetch(all_airlines) == IF all_airlines = <<>> THEN "done" ELSE "filter"

NoneAvailableExitZero == 0

NoneAvailableExit == 1

AfterSendAlwaysCommits(email_sent) == "commit_read"

AfterSendNeverCommits(email_sent) == "done"

AfterSend(email_sent) == IF email_sent THEN "commit_read" ELSE "done"

MainResultStrict(update_ok) == IF update_ok THEN 0 ELSE 1

MainResult(update_ok) == IF update_ok THEN 0 ELSE 0

\* ------------------------------------------------------------------ state
IdleRun == [pc |-> "idle", config |-> "missing", sent_airlines |-> {},
            letter |-> 0, all_airlines |-> <<>>, available_airlines |-> <<>>,
            iata |-> NoIata, destinations |-> <<>>, dest_count |-> 0,
            email_sent |-> FALSE, sent_set |-> {}, update_ok |-> FALSE,
            exit_code |-> -1,
            steps |-> <<>>, file_at_start |-> MissingFile, commit_pre |-> {}]

Init ==
    /\ file = MissingFile
    /\ run = [r \in Slots |-> IdleRun]
    /\ started = 0
    /\ deliveries = [i \in Ids |-> 0]
    /\ fault = FALSE
    /\ last_writer = 0

Active(r) == run[r].pc \notin {"idle", "done"}

\* Process exit: the run's memory is gone; what stays is its exit status and
\* the record of what it did.
Finish(rec, code) ==
    [IdleRun EXCEPT !.pc = "done", !.exit_code = code,
                    !.iata = rec.iata, !.email_sent = rec.email_sent,
                    !.sent_set = rec.sent_set, !.update_ok = rec.update_ok,
                    !.steps = rec.steps, !.file_at_start = rec.file_at_start,
                    !.commit_pre = rec.commit_pre]

\* ---------------------------------------------------------------- actions
\* One scheduled invocation; the previous one has exited.
StartRun(r) ==
    /\ r = 1
    /\ started < MaxRuns
    /\ \A q \in Slots : ~Active(q)
    /\ run' = [run EXCEPT ![r] = [IdleRun EXCEPT !.pc = "config", !.file_at_start = file]]
    /\ started' = started + 1
    /\ UNCHANGED <<file, deliveries, fault, last_writer>>

\* Two invocations, the second of which may start while the first is still
\* running (no lock is taken on SENT_FILE).
StartOverlapping(r) ==
    /\ run[r].pc = "idle"
    /\ r > 1 => run[1].pc # "idle"
    /\ run' = [run EXCEPT ![r] = [IdleRun EXCEPT !.pc = "config", !.file_at_start = file]]
    /\ started' = started + 1
    /\ UNCHANGED <<file, deliveries, fault, last_writer>>

LoadConfig(r) ==
    /\ run[r].pc = "config"
    /\ \E c \in {"missing", "norecipients", "ok"} :
         run' = [run EXCEPT ![r] =
                   IF AfterConfig(c) = "done"
                   THEN Finish([@ EXCEPT !.config = c], 1)
                   ELSE [@ EXCEPT !.config = c, !.pc = AfterConfig(c)]]
    /\ UNCHANGED <<file, started, deliveries, fault, last_writer>>

LoadLedger(r) ==
    /\ run[r].pc = "load"
    /\ \E readFails \in BOOLEAN :
         /\ readFails => file.kind = "ok"
         /\ run' = [run EXCEPT ![r] =
                      [@ EXCEPT !.sent_airlines = GetSentAirlines(file, readFails),
                                !.steps = Append(@, "load"),
                                !.pc = "fetch"]]
         /\ fault' = (fault \/ readFails \/ file.kind = "corrupt")
    /\ UNCHANGED <<file, started, deliveries, last_writer>>

\* One iteration of the A-Z loop of fetch_all_airlines; the last one
\* returns to main, which gives up on an empty catalog.
FetchCatalog(r) ==
    /\ run[r].pc = "fetch"
    /\ \E page \in Page :
         LET all == IF page.ok THEN AddPage(page.items, 1, run[r].all_airlines)
                    ELSE run[r].all_airlines
         IN
         run' = [run EXCEPT ![r] =
                   IF run[r].letter + 1 < NumLetters
                   THEN [@ EXCEPT !.all_airlines = all, !.letter = @ + 1]
                   ELSE IF AfterFetch(all) = "done"
                   THEN Finish([@ EXCEPT !.steps = Append(@, "fetch")], 1)
                   ELSE [@ EXCEPT !.all_airlines = all,
                                  !.letter = @ + 1,
                                  !.steps = Append(@, "fetch"),
                                  !.pc = AfterFetch(all)]]
    /\ UNCHANGED <<file, started, deliveries, fault, last_writer>>

FilterAvailable(r) ==
    /\ run[r].pc = "filter"
    /\ LET avail == AvailableAirlines(run[r].all_airlines, run[r].sent_airlines) IN
       run' = [run EXCEPT ![r] =
                 IF avail = <<>>
                 THEN Finish([@ EXCEPT !.steps = Append(@, "filter")], NoneAvailableExit)
                 ELSE [@ EXCEPT !.available_airlines = avail,
                                !.steps = Append(@, "filter"),
                                !.pc = "choose"]]
    /\ UNCHANGED <<file, started, deliveries, fault, last_writer>>

ChooseAirline(r) ==
    /\ run[r].pc = "choose"
    /\ \E i \in 1..Len(run[r].available_airlines) :
         run' = [run EXCEPT ![r] =
                   [@ EXCEPT !.iata = run[r].available_airlines[i],
                             !.steps = Append(@, "choose"),
                             !.pc = "enrich"]]
    /\ UNCHANGED <<file, started, deliveries, fault, last_writer>>

Enrich(r) ==
    /\ run[r].pc = "enrich"
    /\ \E answer \in Destinations :
         run' = [run EXCEPT ![r] =
                   [@ EXCEPT !.destinations = get_destinations(run[r].iata, answer),
                             !.steps = Append(@, "enrich"),
                             !.pc = "render"]]
    /\ UNCHANGED <<file, started, deliveries, fault, last_writer>>

Render(r) ==
    /\ run[r].pc = "render"
    /\ run' = [run EXCEPT ![r] =
                 [@ EXCEPT !.dest_count = CountValid(run[r].destinations, 1),
                           !.steps = Append(@, "render"),
                           !.pc = "send"]]
    /\ UNCHANGED <<file, started, deliveries, fault, last_writer>>

\* send_email_bcc: no recipients gives False without a request; otherwise
\* True exactly on HTTP 200.
SendEmail(r) ==
    /\ run[r].pc = "send"
    /\ \E http200 \in BOOLEAN :
         LET ok == run[r].config = "ok" /\ http200 IN
         /\ (run[r].config = "norecipients") => ~http200
         /\ run' = [run EXCEPT ![r] =
                      IF AfterSend(ok) = "done"
                      THEN Finish([@ EXCEPT !.email_sent = ok,
                                            !.steps = Append(@, "send")], 1)
                      ELSE [@ EXCEPT !.email_sent = ok,
                                     !.steps = Append(@, "send"),
                                     !.pc = AfterSend(ok)]]
         /\ deliveries' = IF ok
                          THEN [deliveries EXCEPT ![run[r].iata] = @ + 1]
                          ELSE deliveries
    /\ UNCHANGED <<file, started, fault, last_writer>>

\* add_sent_airline, lines 89-90: re-read and insert.
CommitReread(r) ==
    /\ run[r].pc = "commit_read"
    /\ \E readFails \in BOOLEAN :
         /\ readFails => file.kind = "ok"
         /\ run' = [run EXCEPT ![r] =
                      [@ EXCEPT !.sent_set = AddId(GetSentAirlines(file, readFails),
                                                   run[r].iata),
                                !.commit_pre = Persisted(file),
                                !.steps = Append(@, "commit"),
                                !.pc = "commit_open"]]
         /\ fault' = (fault \/ readFails \/ file.kind = "corrupt")
    /\ UNCHANGED <<file, started, deliveries, last_writer>>

\* add_sent_airline, line 91: open(SENT_FILE, 'w') truncates the file, or
\* raises and leaves it alone.
CommitOpen(r) ==
    /\ run[r].pc = "commit_open"
    /\ \E opened \in BOOLEAN :
         IF opened
         THEN /\ file' = PartialFile
              /\ run' = [run EXCEPT ![r] = [@ EXCEPT !.pc = "commit_write"]]
              /\ UNCHANGED fault
         ELSE /\ file' = file
              /\ run' = [run EXCEPT ![r] = Finish(@, MainResult(FALSE))]
              /\ fault' = TRUE
    /\ UNCHANGED <<started, deliveries, last_writer>>

\* add_sent_airline, lines 92-100: dump and close, then main's return.  A
\* write that lands on a file another run rewrote since this run's open can
\* leave the tail of the other content behind.
CommitWrite(r) ==
    /\ run[r].pc = "commit_write"
    /\ \E written \in BOOLEAN, clean \in BOOLEAN :
         /\ (~clean) => file.kind = "ok"
         /\ IF written
            THEN /\ file' = IF clean THEN Dump(run[r].sent_set) ELSE PartialFile
                 /\ run' = [run EXCEPT ![r] =
                              Finish([@ EXCEPT !.update_ok = TRUE], MainResult(TRUE))]
                 /\ last_writer' = r
                 /\ fault' = (fault \/ ~clean)
            ELSE /\ file' = IF clean /\ file.kind = "ok" THEN file ELSE PartialFile
                 /\ run' = [run EXCEPT ![r] = Finish(@, MainResult(FALSE))]
                 /\ last_writer' = last_writer
                 /\ fault' = TRUE
    /\ UNCHANGED <<started, deliveries>>

Step(r) ==
    \/ LoadConfig(r)
    \/ LoadLedger(r)
    \/ FetchCatalog(r)
    \/ FilterAvailable(r)
    \/ ChooseAirline(r)
    \/ Enrich(r)
    \/ Render(r)
    \/ SendEmail(r)
    \/ CommitReread(r)
    \/ CommitOpen(r)
    \/ CommitWrite(r)

Next == \E r \in Slots : StartRun(r) \/ Step(r)

Spec == Init /\ [][Next]_vars

NextOverlap == \E r \in Slots : StartOverlapping(r) \/ Step(r)

SpecOverlap == Init /\ [][NextOverlap]_vars

\* ------------------------------------------------------------- properties
Invoked(r, step) == step \in Range(run[r].steps)

Catalog(r) == Range(run[r].all_airlines)

AllExited == \A r \in Slots : ~Active(r)

\* C1: in every run add_sent_airline is invoked only after send_email_bcc
\* returned True in that run, and a run whose send returned True does not
\* finish without invoking it.
CommitIffSendSucceeded ==
    \A r \in Slots :
      /\ Invoked(r, "commit") =>
           /\ run[r].email_sent
           /\ 0 < IndexOf(run[r].steps, "send")
           /\ IndexOf(run[r].steps, "send") < IndexOf(run[r].steps, "commit")
      /\ (run[r].pc = "done" /\ run[r].email_sent) => Invoked(r, "commit")

CommittedAfterSend ==
    \E r \in Slots : run[r].pc = "done" /\ run[r].email_sent /\ Invoked(r, "commit")

\* C2 as stated: once all runs have exited, an identifier is in the persisted
\* ledger if and only if a send for it returned True.
LedgerIffDelivered ==
    AllExited => \A id \in Ids : (id \in Persisted(file)) <=> (deliveries[id] > 0)

\* C2 amended: an identifier is in the persisted ledger only if a send for it
\* returned True (a delivered identifier may be absent).
LedgerOnlyDelivered ==
    \A id \in Persisted(file) : deliveries[id] > 0

LedgerHoldsDelivered ==
    AllExited /\ file.kind = "ok" /\ Cardinality(file.sent) >= 2

\* C3: the selection never yields an item whose identifier is in the loaded
\* ledger L, and yields an item of the catalog C whenever C \ L is non-empty.
SelectReturnsUnsent ==
    [][\A r \in Slots :
         LET C == Catalog(r)
             L == run[r].sent_airlines
         IN  /\ (run[r].pc = "filter" /\ run'[r].pc # "filter" /\ C \ L # {}) =>
                  /\ run'[r].pc = "choose"
                  /\ run'[r].available_airlines # <<>>
             /\ (run[r].pc = "choose" /\ run'[r].pc # "choose") =>
                  /\ run'[r].pc = "enrich"
                  /\ run'[r].iata \in C
                  /\ run'[r].iata \notin L]_vars

SelectedAmongPartlySent ==
    \E r \in Slots :
      /\ run[r].pc = "enrich"
      /\ Catalog(r) \cap run[r].sent_airlines # {}
      /\ run[r].iata \in Catalog(r) \ run[r].sent_airlines

\* C4: when every catalog identifier is already in the loaded ledger, the run
\* ends with exit code 1 without calling get_destinations or send_email_bcc
\* and without writing the ledger.
NotFoundExitsWithoutCalls ==
    [][\A r \in Slots :
         (run[r].pc = "filter" /\ run'[r].pc # "filter"
            /\ Catalog(r) \ run[r].sent_airlines = {}) =>
              /\ run'[r].pc = "done"
              /\ run'[r].exit_code = 1
              /\ ~\E st \in {"enrich", "send", "commit"} : st \in Range(run'[r].steps)
              /\ file' = run[r].file_at_start]_vars

NotFoundExit ==
    \E r \in Slots :
      /\ run[r].pc = "done"
      /\ run[r].exit_code = 1
      /\ run[r].steps = <<"load", "fetch", "filter">>
      /\ file.kind = "ok"

\* C5: for a run that reached the delivery step the exit code is 0 exactly
\* when send returned True; a failed delivery exits 1 with the ledger file as
\* it was before the run, a successful one exits 0 even when commit returned
\* False.
ExitCodeFollowsDelivery ==
    \A r \in Slots :
      (run[r].pc = "done" /\ Invoked(r, "send")) =>
        /\ (run[r].exit_code = 0) <=> run[r].email_sent
        /\ ~run[r].email_sent => (run[r].exit_code = 1 /\ file = run[r].file_at_start)
        /\ (run[r].email_sent /\ ~run[r].update_ok) => run[r].exit_code = 0

SentButNotCommitted ==
    \E r \in Slots :
      /\ run[r].pc = "done"
      /\ run[r].email_sent
      /\ Invoked(r, "commit")
      /\ ~run[r].update_ok
      /\ run[r].exit_code = 0

\* C6: at every point during and after a commit, a load of the ledger file
\* returns the set held before the commit or that set plus the new identifier.
CommitIsAtomic ==
    \A r \in Slots :
      Invoked(r, "commit") =>
        Persisted(file) \in {run[r].commit_pre, run[r].commit_pre \cup {run[r].iata}}

\* C7: the set of identifiers stored after a run is a superset of the set
\* stored before it.
LedgerMonotonic ==
    \A r \in Slots :
      run[r].pc = "done" => Persisted(run[r].file_at_start) \subseteq Persisted(file)

\* C8: with two overlapping runs the last writer wins: a readable ledger file
\* holds exactly what the last writer re-read plus its own identifier, so an
\* identifier written in between by the other run is dropped.
LastWriterWins ==
    \A r \in Slots :
      (last_writer = r /\ file.kind = "ok") =>
        /\ run[r].pc = "done"
        /\ run[r].update_ok
        /\ file.sent = run[r].sent_set
        /\ run[r].iata \in file.sent

LostUpdate ==
    /\ ~fault
    /\ \A r \in Slots : run[r].pc = "done" /\ run[r].email_sent /\ run[r].update_ok
    /\ run[1].iata # run[2].iata
    /\ file.kind = "ok"
    /\ \E r \in Slots : run[r].iata \notin file.sent

\* C9 as stated: the steps of a run happen in the order fetch catalog, load
\* ledger, compute available, select, enrich, render, deliver, commit.
StatedOrder ==
    <<"fetch", "load", "filter", "choose", "enrich", "render", "send", "commit">>

StepsFollowStatedOrder ==
    \A r \in Slots : IsPrefix(run[r].steps, StatedOrder)

\* C9 amended: the steps of a run happen in the order load ledger, fetch
\* catalog, compute available, select, enrich, render, deliver, commit.
SourceOrder ==
    <<"load", "fetch", "filter", "choose", "enrich", "render", "send", "commit">>

StepsFollowSourceOrder ==
    \A r \in Slots : IsPrefix(run[r].steps, SourceOrder)

FullRun ==
    \E r \in Slots : run[r].pc = "done" /\ run[r].steps = SourceOrder

\* C10: in non-overlapping runs in which every ledger read and every commit
\* succeeded, no identifier is delivered twice, and no run selects an
\* identifier that was already delivered.
NoRepeatWithoutFault ==
    ~fault =>
      /\ \A id \in Ids : deliveries[id] <= 1
      /\ \A r \in Slots :
           run[r].pc \in {"enrich", "render", "send"} => deliveries[run[r].iata] = 0

TwoDeliveredOnce ==
    /\ ~fault
    /\ started >= 3
    /\ Cardinality({id \in Ids : deliveries[id] = 1}) >= 2
    /\ \E r \in Slots : run[r].pc = "send"

====
